---------------------------- MODULE Spec2Model ----------------------------
(***************************************************************************)
(* A model of lox-rs: Scanner (scanner.rs), Parser (parser.rs),            *)
(* Environment (environment.rs), Interpreter (interpreter.rs) and the      *)
(* orchestration in Lox::run (lib.rs).                                     *)
(*                                                                         *)
(* A source string is a sequence of characters (one-character strings).    *)
(* A Rust panic (an unwrap on None / Err, a str slice off a character      *)
(* boundary, an index underflow) is the state pc = "panicked" with `fault` *)
(* naming the component that panicked.                                     *)
(***************************************************************************)
EXTENDS Integers, Sequences, FiniteSets, TLC

VARIABLES
    source,       \* Scanner.source / the String handed to Lox::run
    chars,        \* Scanner.chars: 1-based index of the next character (Len+1: exhausted)
    token_start,  \* Scanner.token_start: a byte offset into source
    line,         \* Scanner.line
    tokens,       \* the Vec<Token> built by scan_tokens, then Parser.tokens
    current,      \* Parser.current (0-based index into tokens)
    had_error,    \* Parser.had_error
    statements,   \* the Vec<Stmt> built by Parser::parse
    next_stmt,    \* position of the `for stmt in stmt` iterator in Lox::run (0-based)
    values,       \* Environment.values (HashMap<String, Value>)
    stdout,       \* everything println! has written, in order
    pc,           \* position of control
    fault,        \* "none", or the component whose code panicked
    arg,          \* the argument of the operation exercised directly (EvalSpec)
    ret           \* the value returned by the operation exercised directly

vars == <<source, chars, token_start, line, tokens, current, had_error,
          statements, next_stmt, values, stdout, pc, fault, arg, ret>>

----------------------------------------------------------------------------
(* Bounds *)

\* longest source string, in characters, of ScanSpec
MaxSourceLen == 4

\* most statements in a program of Spec
MaxStmts == 3

\* the lines run_prompt reads before its input ends
MaxRuns == 2

\* most tokens before the EoF token in a token sequence of ParseSpec
MaxTokens == 4

----------------------------------------------------------------------------
(* Characters and strings *)

\* Option::None as returned by Peekable::peek / Iterator::next
None == "None"

Digits == {"0", "1", "2", "3", "4", "5", "6", "7", "8", "9"}

Letters ==
    {"a", "b", "c", "d", "e", "f", "g", "h", "i", "j", "k", "l", "m",
     "n", "o", "p", "q", "r", "s", "t", "u", "v", "w", "x", "y", "z",
     "A", "B", "C", "D", "E", "F", "G", "H", "I", "J", "K", "L", "M",
     "N", "O", "P", "Q", "R", "S", "T", "U", "V", "W", "X", "Y", "Z"}

\* the characters of this model whose UTF-8 encoding is longer than one byte
\* ("U+00E9" stands for the single character e-acute, two bytes in UTF-8)
MultiByte == {"U+00E9"}

\* char::len_utf8: every multi-byte character of this model takes two bytes
ByteLen(c) == IF c \in MultiByte THEN 2 ELSE 1

\* the byte offset that char_indices gives the i-th character (1-based): one
\* byte for each character before it and one more for each multi-byte one;
\* for i = Len(src)+1 it is src.len()
ByteIndex(src, i) ==
    (i - 1) + Cardinality({j \in 1..(i - 1) : src[j] \in MultiByte})

\* str::len, in bytes
StrLen(src) == ByteIndex(src, Len(src) + 1)

\* the character (1-based, Len(src)+1 for the end) that starts at byte offset b,
\* found by walking the characters from i at offset `at`; 0 when b is inside a
\* character or past the end
RECURSIVE CharIndexFrom(_, _, _, _)
CharIndexFrom(src, b, i, at) ==
    IF at = b THEN i
    ELSE IF at > b \/ i > Len(src) THEN 0
    ELSE CharIndexFrom(src, b, i + 1, at + ByteLen(src[i]))

CharIndex(src, b) == CharIndexFrom(src, b, 1, 0)

\* str::is_char_boundary
IsCharBoundary(src, b) == CharIndex(src, b) # 0

\* &src[b1..b2] panics unless b1 <= b2 <= len and both lie on character boundaries
SliceFaults(src, b1, b2) ==
    \/ b1 > b2
    \/ b2 > StrLen(src)
    \/ ~IsCharBoundary(src, b1)
    \/ ~IsCharBoundary(src, b2)

\* &src[b1..b2] where it does not panic
StrSlice(src, b1, b2) == SubSeq(src, CharIndex(src, b1), CharIndex(src, b2) - 1)

\* is_digit(Option<char>)
is_digit(c) == c \in Digits

\* is_ident(Option<char>)
is_ident(c) == c \in Letters \/ c = "_"

\* check_keyword(word, kw, pos, tt): word[pos..] == kw[pos..]
check_keyword(word, kw, pos, tt) ==
    IF SubSeq(word, pos + 1, Len(word)) = SubSeq(kw, pos + 1, Len(kw))
    THEN tt
    ELSE "Identifier"

----------------------------------------------------------------------------
(* Scanner *)

\* Token::new
Token(token_type, lexeme, ln) ==
    [token_type |-> token_type, lexeme |-> lexeme, line |-> ln]

\* self.chars.peek(), as the character only
Scanner_peek(src, i) == IF i <= Len(src) THEN src[i] ELSE None

\* Scanner::current: the byte offset of the next character, or source.len()
Scanner_current(src, i) == ByteIndex(src, i)

\* Scanner::is_at_end
Scanner_is_at_end(src, i) == Scanner_current(src, i) >= StrLen(src)

\* Scanner::advance: the position after chars.next()
Scanner_advance(src, i) == IF i <= Len(src) THEN i + 1 ELSE i

\* Scanner::maybe_match: [matched, chars]
maybe_match(src, i, expected) ==
    IF Scanner_peek(src, i) = expected
    THEN [matched |-> TRUE, chars |-> Scanner_advance(src, i)]
    ELSE [matched |-> FALSE, chars |-> i]

\* Scanner::maybe_match_str: [panic, matched, chars]
maybe_match_str(src, i, expected) ==
    IF i > Len(src)
    THEN [panic |-> FALSE, matched |-> FALSE, chars |-> i]
    ELSE
        LET strlen == StrLen(expected)
            byte == ByteIndex(src, i)
            end_offset == byte + strlen
        IN  IF end_offset > StrLen(src)
            THEN [panic |-> FALSE, matched |-> FALSE, chars |-> i]
            ELSE IF SliceFaults(src, byte, end_offset)
            THEN [panic |-> TRUE, matched |-> FALSE, chars |-> i]
            ELSE IF expected = StrSlice(src, byte, end_offset)
            THEN [panic |-> FALSE, matched |-> TRUE,
                  chars |-> i + Len(expected)]
            ELSE [panic |-> FALSE, matched |-> FALSE, chars |-> i]

\* the `while let` of skip_whitespace that consumes a comment up to '\n'
RECURSIVE skip_comment(_, _)
skip_comment(src, i) ==
    IF i > Len(src) \/ src[i] = "\n" THEN i ELSE skip_comment(src, i + 1)

\* Scanner::skip_whitespace: [panic, chars, line]
RECURSIVE skip_whitespace(_, _, _)
skip_whitespace(src, i, ln) ==
    LET c == Scanner_peek(src, i) IN
    IF c \in {" ", "\r", "\t"} THEN skip_whitespace(src, i + 1, ln)
    ELSE IF c = "\n" THEN skip_whitespace(src, i + 1, ln + 1)
    ELSE IF c = "/" THEN
        LET m == maybe_match_str(src, i, <<"/", "/">>) IN
        IF m.panic THEN [panic |-> TRUE, chars |-> i, line |-> ln]
        ELSE IF m.matched
        THEN skip_whitespace(src, skip_comment(src, m.chars), ln)
        ELSE [panic |-> FALSE, chars |-> i, line |-> ln]
    ELSE [panic |-> FALSE, chars |-> i, line |-> ln]

\* Scanner::content
content(src, start, i) == StrSlice(src, start, Scanner_current(src, i))

\* Scanner::make_token
make_token(src, start, i, ln, token_type) ==
    Token(token_type, content(src, start, i), ln)

\* Scanner::string_literal: [token, chars, line]
RECURSIVE string_literal(_, _, _, _)
string_literal(src, start, i, ln) ==
    LET c == Scanner_peek(src, i) IN
    IF c = "\"" THEN
        [token |-> make_token(src, start, i + 1, ln, "StringLiteral"),
         chars |-> i + 1, line |-> ln]
    ELSE IF c # None THEN
        string_literal(src, start, i + 1, IF c = "\n" THEN ln + 1 ELSE ln)
    ELSE
        [token |-> make_token(src, start, i, ln, "UnterminatedStringError"),
         chars |-> i, line |-> ln]

\* Scanner::consume_integers: the position after the digits
RECURSIVE consume_integers(_, _)
consume_integers(src, i) ==
    IF is_digit(Scanner_peek(src, i))
    THEN consume_integers(src, i + 1)
    ELSE i

\* Scanner::number_literal: [token, chars]
number_literal(src, start, i, ln) ==
    LET i1 == consume_integers(src, i)
        i2 == IF Scanner_peek(src, i1) = "." /\ is_digit(Scanner_peek(src, i1 + 1))
              THEN consume_integers(src, i1 + 1)
              ELSE i1
    IN  [token |-> make_token(src, start, i2, ln, "NumberLiteral"), chars |-> i2]

\* Scanner::identifier_type
identifier_type(word) ==
    IF word = <<>> THEN "Identifier"
    ELSE
    LET c1 == word[1] IN
    CASE c1 = "a" -> check_keyword(word, <<"a", "n", "d">>, 1, "And")
      [] c1 = "c" -> check_keyword(word, <<"c", "l", "a", "s", "s">>, 1, "Class")
      [] c1 = "e" -> check_keyword(word, <<"e", "l", "s", "e">>, 1, "Else")
      [] c1 = "f" ->
            IF Len(word) < 2 THEN "Identifier"
            ELSE CASE word[2] = "a" ->
                        check_keyword(word, <<"f", "a", "l", "s", "e">>, 2, "False")
                   [] word[2] = "o" -> check_keyword(word, <<"f", "o", "r">>, 2, "For")
                   [] word[2] = "u" -> check_keyword(word, <<"f", "u", "n">>, 2, "Fun")
                   [] OTHER -> "Identifier"
      [] c1 = "i" -> check_keyword(word, <<"i", "f">>, 1, "If")
      [] c1 = "n" -> check_keyword(word, <<"n", "i", "l">>, 1, "Nil")
      [] c1 = "o" -> check_keyword(word, <<"o", "r">>, 1, "Or")
      [] c1 = "p" -> check_keyword(word, <<"p", "r", "i", "n", "t">>, 1, "Print")
      [] c1 = "r" ->
            check_keyword(word, <<"r", "e", "t", "u", "r", "n">>, 1, "Return")
      [] c1 = "s" -> check_keyword(word, <<"s", "u", "p", "e", "r">>, 1, "Super")
      [] c1 = "t" ->
            IF Len(word) < 2 THEN "Identifier"
            ELSE CASE word[2] = "h" ->
                        check_keyword(word, <<"t", "h", "i", "s">>, 2, "This")
                   [] word[2] = "r" ->
                        check_keyword(word, <<"t", "r", "u", "e">>, 2, "True")
                   [] OTHER -> "Identifier"
      [] c1 = "v" -> check_keyword(word, <<"v", "a", "r">>, 1, "Var")
      [] c1 = "w" -> check_keyword(word, <<"w", "h", "i", "l", "e">>, 1, "While")
      [] OTHER -> "Identifier"

\* the `while` of Scanner::identifier: the position after the identifier characters
RECURSIVE identifier_chars(_, _)
identifier_chars(src, i) ==
    IF is_digit(Scanner_peek(src, i)) \/ is_ident(Scanner_peek(src, i))
    THEN identifier_chars(src, i + 1)
    ELSE i

\* Scanner::identifier: [token, chars]
identifier(src, start, i, ln) ==
    LET i1 == identifier_chars(src, i)
        t == identifier_type(content(src, start, i1))
    IN  [token |-> make_token(src, start, i1, ln, t), chars |-> i1]

\* the one- or two-character operators of scan_token
two_char_token(src, start, i, ln, two, one) ==
    LET m == maybe_match(src, i, "=") IN
    [token |-> make_token(src, start, m.chars, ln, IF m.matched THEN two ELSE one),
     chars |-> m.chars]

\* the single-character tokens of scan_token
SingleCharType(c) ==
    CASE c = "(" -> "LeftParen"
      [] c = ")" -> "RightParen"
      [] c = "{" -> "LeftBrace"
      [] c = "}" -> "RightBrace"
      [] c = "," -> "Comma"
      [] c = "." -> "Dot"
      [] c = "-" -> "Minus"
      [] c = "+" -> "Plus"
      [] c = ";" -> "Semicolon"
      [] c = "/" -> "Slash"
      [] c = "*" -> "Star"
      [] OTHER -> "UnexpectedCharacterError"

\* what TokenType::error prints for an unexpected character
ScanErrorLine(ln) ==
    [kind |-> "scan_error", line |-> ln, message |-> "Unexpected character."]

\* Scanner::scan_token:
\* [panic, token, chars, line, token_start, printed]
scan_token(src, i0, ln0) ==
    LET ws == skip_whitespace(src, i0, ln0)
        start == Scanner_current(src, ws.chars)
        c == Scanner_peek(src, ws.chars)
        i == Scanner_advance(src, ws.chars)
        ln == ws.line
        Out(r, l, printed) ==
            [panic |-> FALSE, token |-> r.token, chars |-> r.chars, line |-> l,
             token_start |-> start, printed |-> printed]
        One(t) == [token |-> make_token(src, start, i, ln, t), chars |-> i]
    IN
    IF ws.panic THEN
        [panic |-> TRUE, token |-> Token("EoF", <<>>, ln), chars |-> ws.chars,
         line |-> ln, token_start |-> 0, printed |-> <<>>]
    ELSE IF is_ident(c) THEN Out(identifier(src, start, i, ln), ln, <<>>)
    ELSE IF is_digit(c) THEN Out(number_literal(src, start, i, ln), ln, <<>>)
    ELSE IF c = None THEN
        Out([token |-> Token("EoF", <<>>, ln), chars |-> i], ln, <<>>)
    ELSE IF c = "!" THEN Out(two_char_token(src, start, i, ln, "BangEqual", "Bang"), ln, <<>>)
    ELSE IF c = "=" THEN Out(two_char_token(src, start, i, ln, "EqualEqual", "Equal"), ln, <<>>)
    ELSE IF c = "<" THEN Out(two_char_token(src, start, i, ln, "LessEqual", "Less"), ln, <<>>)
    ELSE IF c = ">" THEN
        Out(two_char_token(src, start, i, ln, "GreaterEqual", "Greater"), ln, <<>>)
    ELSE IF c = "\"" THEN
        LET s == string_literal(src, start, i, ln) IN Out(s, s.line, <<>>)
    ELSE IF SingleCharType(c) = "UnexpectedCharacterError"
    THEN Out(One("UnexpectedCharacterError"), ln, <<ScanErrorLine(ln)>>)
    ELSE Out(One(SingleCharType(c)), ln, <<>>)

----------------------------------------------------------------------------
(* Values and syntax trees (ast.rs) *)

RECURSIVE Gcd(_, _)
Gcd(a, b) == IF b = 0 THEN a ELSE Gcd(b, a % b)

Abs(n) == IF n < 0 THEN -n ELSE n

Sign(n) == IF n < 0 THEN -1 ELSE IF n > 0 THEN 1 ELSE 0

\* Value::Number. An f64 is modelled as the fraction num/den in lowest terms
\* with den > 0; den = 0 holds the IEEE specials (num = 1: inf, -1: -inf,
\* 0: NaN). Rounding and the sign of zero are not modelled.
Number(n, d) ==
    IF d = 0 THEN [kind |-> "Number", num |-> Sign(n), den |-> 0]
    ELSE LET g == Gcd(Abs(n), Abs(d))
             s == IF d < 0 THEN -1 ELSE 1
         IN  [kind |-> "Number", num |-> s * (n \div g), den |-> s * (d \div g)]

\* Value::String
String(chs) == [kind |-> "String", str |-> chs]

\* Value::Boolean
Boolean(b) == [kind |-> "Boolean", bool |-> b]

\* Value::Nil
Nil == [kind |-> "Nil"]

\* Option<T>
Some(x) == <<x>>

NoneOpt == <<>>

Literal(value) == [type |-> "Literal", value |-> value]

Grouping(expr) == [type |-> "Grouping", expression |-> expr]

Unary(operator, right) == [type |-> "Unary", operator |-> operator, right |-> right]

Binary(left, operator, right) ==
    [type |-> "Binary", left |-> left, operator |-> operator, right |-> right]

Variable(name) == [type |-> "Variable", name |-> name]

Assign(name, value) == [type |-> "Assign", name |-> name, value |-> value]

ExpressionStmt(expr) == [type |-> "Expression", expression |-> expr]

PrintStmt(expr) == [type |-> "Print", expression |-> expr]

VarStmt(name, initializer) ==
    [type |-> "Var", name |-> name, initializer |-> initializer]

\* the value of one decimal digit
DigitVal(c) ==
    CASE c = "0" -> 0 [] c = "1" -> 1 [] c = "2" -> 2 [] c = "3" -> 3
      [] c = "4" -> 4 [] c = "5" -> 5 [] c = "6" -> 6 [] c = "7" -> 7
      [] c = "8" -> 8 [] c = "9" -> 9

\* the digits of a number lexeme read as one decimal integer, the '.' skipped
RECURSIVE DigitsValue(_)
DigitsValue(chs) ==
    IF chs = <<>> THEN 0
    ELSE LET c == chs[Len(chs)]
             rest == SubSeq(chs, 1, Len(chs) - 1)
         IN  IF c = "." THEN DigitsValue(rest)
             ELSE 10 * DigitsValue(rest) + DigitVal(c)

\* 10 to the number of digits after the '.'
RECURSIVE FracScale(_)
FracScale(chs) ==
    IF chs = <<>> \/ ~(\E i \in 1..Len(chs) : chs[i] = ".") THEN 1
    ELSE IF chs[Len(chs)] = "." THEN 1
    ELSE 10 * FracScale(SubSeq(chs, 1, Len(chs) - 1))

\* lexeme.parse::<f64>().unwrap() on a NumberLiteral lexeme (digits [. digits])
ParseF64(lexeme) == Number(DigitsValue(lexeme), FracScale(lexeme))

----------------------------------------------------------------------------
(* Parser *)

\* Lox::error, as called by Parser::parse_error
parse_error(token, message) ==
    IF token.token_type = "EoF"
    THEN [kind |-> "parse_error", line |-> token.line, at_end |-> TRUE,
          lexeme |-> <<>>, message |-> message]
    ELSE [kind |-> "parse_error", line |-> token.line, at_end |-> FALSE,
          lexeme |-> token.lexeme, message |-> message]

\* tokens.last().unwrap() in Parser::peek panics on an empty vector
Parser_peek_panics(toks) == toks = <<>>

\* Parser::peek (toks non-empty)
Parser_peek(toks, cur) == IF cur < Len(toks) THEN toks[cur + 1] ELSE toks[Len(toks)]

\* Parser::is_at_end
Parser_is_at_end(toks, cur) == Parser_peek(toks, cur).token_type = "EoF"

\* Parser::check
check(toks, cur, t) ==
    IF Parser_is_at_end(toks, cur) THEN FALSE
    ELSE Parser_peek(toks, cur).token_type = t

\* tokens.get(current - 1).unwrap() in Parser::previous panics when current - 1
\* underflows or lies outside the vector
Parser_previous_panics(toks, cur) == cur < 1 \/ cur > Len(toks)

\* Parser::previous where it does not panic
Parser_previous(toks, cur) == toks[cur]

\* Parser::advance: [panic, cur]
Parser_advance(toks, cur) ==
    LET c == IF ~Parser_is_at_end(toks, cur) THEN cur + 1 ELSE cur
    IN  [panic |-> Parser_previous_panics(toks, c), cur |-> c]

\* Parser::match_token: [panic, matched, cur]
match_token(toks, cur, types) ==
    IF \E i \in 1..Len(types) : check(toks, cur, types[i])
    THEN LET a == Parser_advance(toks, cur)
         IN  [panic |-> a.panic, matched |-> TRUE, cur |-> a.cur]
    ELSE [panic |-> FALSE, matched |-> FALSE, cur |-> cur]

\* results of the parsing methods: Ok(node), Err(_), or a panic; `cur` is
\* Parser.current afterwards and `out` what has been printed so far
POk(node, cur, out) ==
    [ok |-> TRUE, panic |-> FALSE, cur |-> cur, out |-> out, node |-> node]

PErr(cur, out) ==
    [ok |-> FALSE, panic |-> FALSE, cur |-> cur, out |-> out, node |-> <<>>]

PPanic(cur, out) ==
    [ok |-> FALSE, panic |-> TRUE, cur |-> cur, out |-> out, node |-> <<>>]

\* Parser::consume: Ok(&Token) in `node`
consume(toks, cur, out, t, message) ==
    IF check(toks, cur, t)
    THEN LET a == Parser_advance(toks, cur)
         IN  IF a.panic THEN PPanic(a.cur, out)
             ELSE POk(Parser_previous(toks, a.cur), a.cur, out)
    ELSE PErr(cur, Append(out, parse_error(Parser_peek(toks, cur), message)))

RECURSIVE expression(_, _, _)
RECURSIVE equality(_, _, _)
RECURSIVE equality_loop(_, _, _, _)
RECURSIVE comparison(_, _, _)
RECURSIVE comparison_loop(_, _, _, _)
RECURSIVE term(_, _, _)
RECURSIVE term_loop(_, _, _, _)
RECURSIVE factor(_, _, _)
RECURSIVE factor_loop(_, _, _, _)
RECURSIVE unary(_, _, _)
RECURSIVE primary(_, _, _)

\* the tree a binary level has built once the operand `r` is parsed: the operand
\* itself at the start, Expr::Binary{left, operator, right} inside the `while`
Folded(left, operator, r) ==
    IF left = NoneOpt THEN r.node ELSE Binary(left[1], operator[1], r.node)

\* Parser::expression
expression(toks, cur, out) == equality(toks, cur, out)

\* Parser::equality from the point where an operand has been parsed with result
\* `r` (`?` returns its Err): the `while self.match_token(..)` test, and the
\* next operand
equality_loop(toks, r, left, operator) ==
    IF ~r.ok THEN r
    ELSE
    LET m == match_token(toks, r.cur, <<"BangEqual", "EqualEqual">>) IN
    IF m.panic THEN PPanic(m.cur, r.out)
    ELSE IF ~m.matched THEN POk(Folded(left, operator, r), r.cur, r.out)
    ELSE equality_loop(toks, comparison(toks, m.cur, r.out),
                       Some(Folded(left, operator, r)),
                       Some(Parser_previous(toks, m.cur)))

\* Parser::equality
equality(toks, cur, out) ==
    equality_loop(toks, comparison(toks, cur, out), NoneOpt, NoneOpt)

\* Parser::comparison from the point where an operand has been parsed
comparison_loop(toks, r, left, operator) ==
    IF ~r.ok THEN r
    ELSE
    LET m == match_token(toks, r.cur,
                         <<"Greater", "GreaterEqual", "Less", "LessEqual">>) IN
    IF m.panic THEN PPanic(m.cur, r.out)
    ELSE IF ~m.matched THEN POk(Folded(left, operator, r), r.cur, r.out)
    ELSE comparison_loop(toks, term(toks, m.cur, r.out),
                         Some(Folded(left, operator, r)),
                         Some(Parser_previous(toks, m.cur)))

\* Parser::comparison
comparison(toks, cur, out) ==
    comparison_loop(toks, term(toks, cur, out), NoneOpt, NoneOpt)

\* Parser::term from the point where an operand has been parsed
term_loop(toks, r, left, operator) ==
    IF ~r.ok THEN r
    ELSE
    LET m == match_token(toks, r.cur, <<"Minus", "Plus">>) IN
    IF m.panic THEN PPanic(m.cur, r.out)
    ELSE IF ~m.matched THEN POk(Folded(left, operator, r), r.cur, r.out)
    ELSE term_loop(toks, factor(toks, m.cur, r.out),
                   Some(Folded(left, operator, r)),
                   Some(Parser_previous(toks, m.cur)))

\* Parser::term folding to the right: the right operand is a whole term
RECURSIVE term_right_associative(_, _, _)
term_right_associative(toks, cur, out) ==
    LET l == factor(toks, cur, out) IN
    IF ~l.ok THEN l
    ELSE LET m == match_token(toks, l.cur, <<"Minus", "Plus">>) IN
         IF m.panic THEN PPanic(m.cur, l.out)
         ELSE IF ~m.matched THEN l
         ELSE LET r == term_right_associative(toks, m.cur, l.out) IN
              IF ~r.ok THEN r
              ELSE POk(Binary(l.node, Parser_previous(toks, m.cur), r.node),
                       r.cur, r.out)

\* Parser::term
term(toks, cur, out) == term_loop(toks, factor(toks, cur, out), NoneOpt, NoneOpt)

\* Parser::factor from the point where an operand has been parsed
factor_loop(toks, r, left, operator) ==
    IF ~r.ok THEN r
    ELSE
    LET m == match_token(toks, r.cur, <<"Slash", "Star">>) IN
    IF m.panic THEN PPanic(m.cur, r.out)
    ELSE IF ~m.matched THEN POk(Folded(left, operator, r), r.cur, r.out)
    ELSE factor_loop(toks, unary(toks, m.cur, r.out),
                     Some(Folded(left, operator, r)),
                     Some(Parser_previous(toks, m.cur)))

\* Parser::factor
factor(toks, cur, out) == factor_loop(toks, unary(toks, cur, out), NoneOpt, NoneOpt)

\* Expr::Unary{operator, right} of Parser::unary, `right` being the result of
\* the recursive call
unary_operand(operator, right) ==
    IF ~right.ok THEN right
    ELSE POk(Unary(operator, right.node), right.cur, right.out)

\* Parser::unary
unary(toks, cur, out) ==
    LET m == match_token(toks, cur, <<"Bang", "Minus">>) IN
    IF m.panic THEN PPanic(m.cur, out)
    ELSE IF m.matched
    THEN unary_operand(Parser_previous(toks, m.cur), unary(toks, m.cur, out))
    ELSE primary(toks, cur, out)

\* the LeftParen arm of Parser::primary, `expr` being the result of expression()
primary_grouping(toks, expr) ==
    IF ~expr.ok THEN expr
    ELSE LET c == consume(toks, expr.cur, expr.out, "RightParen",
                          "Expect ')' after expression.")
         IN  IF ~c.ok THEN c ELSE POk(Grouping(expr.node), c.cur, c.out)

\* Parser::primary
primary(toks, cur, out) ==
    LET mFalse == match_token(toks, cur, <<"False">>)
        mTrue == match_token(toks, cur, <<"True">>)
        mNil == match_token(toks, cur, <<"Nil">>)
        mNum == match_token(toks, cur, <<"NumberLiteral">>)
        mStr == match_token(toks, cur, <<"StringLiteral">>)
        mId == match_token(toks, cur, <<"Identifier">>)
        mParen == match_token(toks, cur, <<"LeftParen">>)
        Lit(m, v) == IF m.panic THEN PPanic(m.cur, out) ELSE POk(v, m.cur, out)
    IN
    IF mFalse.matched THEN Lit(mFalse, Literal(Boolean(FALSE)))
    ELSE IF mTrue.matched THEN Lit(mTrue, Literal(Boolean(TRUE)))
    ELSE IF mNil.matched THEN Lit(mNil, Literal(Nil))
    ELSE IF mNum.matched THEN
        IF mNum.panic THEN PPanic(mNum.cur, out)
        ELSE POk(Literal(ParseF64(Parser_previous(toks, mNum.cur).lexeme)),
                 mNum.cur, out)
    ELSE IF mStr.matched THEN
        IF mStr.panic THEN PPanic(mStr.cur, out)
        ELSE POk(Literal(String(Parser_previous(toks, mStr.cur).lexeme)),
                 mStr.cur, out)
    ELSE IF mId.matched THEN
        IF mId.panic THEN PPanic(mId.cur, out)
        ELSE POk(Variable(Parser_previous(toks, mId.cur)), mId.cur, out)
    ELSE IF mParen.matched THEN
        IF mParen.panic THEN PPanic(mParen.cur, out)
        ELSE primary_grouping(toks, expression(toks, mParen.cur, out))
    ELSE PErr(cur, out)

\* the end of Parser::var_declaration: `init` is the result of the initializer
\* (an Ok without a node when there is none); the ';', then Stmt::Var
var_declaration_end(toks, name, has_init, init) ==
    IF ~init.ok THEN init
    ELSE
    LET semi == consume(toks, init.cur, init.out, "Semicolon",
                        "Expect ';' after variable declaration.")
    IN  IF ~semi.ok THEN semi
        ELSE POk(VarStmt(name, IF has_init THEN Some(init.node) ELSE NoneOpt),
                 semi.cur, semi.out)

\* Parser::var_declaration
var_declaration(toks, cur, out) ==
    LET name == consume(toks, cur, out, "Identifier", "Expect variable name.")
        m == match_token(toks, name.cur, <<"Equal">>)
    IN
    IF ~name.ok THEN name
    ELSE IF m.panic THEN PPanic(m.cur, name.out)
    ELSE IF m.matched
    THEN var_declaration_end(toks, name.node, TRUE,
                             expression(toks, m.cur, name.out))
    ELSE var_declaration_end(toks, name.node, FALSE, POk(<<>>, m.cur, name.out))

\* Parser::print_statement and Parser::expression_statement after
\* `let value = self.expression();`: the ';' is consumed (`?` returns on its
\* absence) before `value` is inspected
statement_end(toks, value, stmt_type) ==
    IF value.panic THEN value
    ELSE LET semi == consume(toks, value.cur, value.out, "Semicolon",
                             "Expect ';' after value.")
         IN  IF ~semi.ok THEN semi
             ELSE IF value.ok
             THEN POk([type |-> stmt_type, expression |-> value.node],
                      semi.cur, semi.out)
             ELSE PErr(semi.cur, semi.out)

\* Parser::print_statement
print_statement(toks, cur, out) ==
    statement_end(toks, expression(toks, cur, out), "Print")

\* Parser::expression_statement
expression_statement(toks, cur, out) ==
    statement_end(toks, expression(toks, cur, out), "Expression")

\* Parser::statement
statement(toks, cur, out) ==
    LET m == match_token(toks, cur, <<"Print">>) IN
    IF m.panic THEN PPanic(m.cur, out)
    ELSE IF m.matched THEN print_statement(toks, m.cur, out)
    ELSE expression_statement(toks, cur, out)

\* Parser::declaration
declaration(toks, cur, out) ==
    LET m == match_token(toks, cur, <<"Var">>) IN
    IF m.panic THEN PPanic(m.cur, out)
    ELSE IF m.matched THEN var_declaration(toks, m.cur, out)
    ELSE statement(toks, cur, out)

\* the token kinds at which synchronize stops without consuming
SyncKeywords == {"Class", "Fun", "Var", "For", "If", "While", "Print", "Return"}

\* the `while !self.is_at_end()` of Parser::synchronize: [panic, cur]
RECURSIVE synchronize_loop(_, _)
synchronize_loop(toks, cur) ==
    IF Parser_is_at_end(toks, cur) THEN [panic |-> FALSE, cur |-> cur]
    ELSE IF Parser_previous_panics(toks, cur) THEN [panic |-> TRUE, cur |-> cur]
    ELSE IF Parser_previous(toks, cur).token_type = "Semicolon"
    THEN [panic |-> FALSE, cur |-> cur]
    ELSE IF Parser_peek(toks, cur).token_type \in SyncKeywords
    THEN [panic |-> FALSE, cur |-> cur]
    ELSE LET a == Parser_advance(toks, cur)
         IN  IF a.panic THEN a ELSE synchronize_loop(toks, a.cur)

\* Parser::synchronize without its leading advance()
synchronize_without_advance(toks, cur) == synchronize_loop(toks, cur)

\* Parser::synchronize: [panic, cur]
synchronize(toks, cur) ==
    LET a == Parser_advance(toks, cur)
    IN  IF a.panic THEN a ELSE synchronize_loop(toks, a.cur)

----------------------------------------------------------------------------
(* f64 arithmetic on the fractions of Number *)

IsNaN(x) == x.den = 0 /\ x.num = 0

IsInf(x) == x.den = 0 /\ x.num # 0

\* -(num)
NumNeg(x) == Number(-x.num, x.den)

\* lnum + rnum
NumAdd(x, y) ==
    IF IsNaN(x) \/ IsNaN(y) THEN Number(0, 0)
    ELSE IF IsInf(x) /\ IsInf(y)
    THEN IF x.num = y.num THEN x ELSE Number(0, 0)
    ELSE IF IsInf(x) THEN x
    ELSE IF IsInf(y) THEN y
    ELSE Number(x.num * y.den + y.num * x.den, x.den * y.den)

\* lnum - rnum
NumSub(x, y) == NumAdd(x, NumNeg(y))

\* lnum * rnum
NumMul(x, y) ==
    IF IsNaN(x) \/ IsNaN(y) THEN Number(0, 0)
    ELSE IF IsInf(x) \/ IsInf(y) THEN Number(Sign(x.num) * Sign(y.num), 0)
    ELSE Number(x.num * y.num, x.den * y.den)

\* lnum / rnum
NumDiv(x, y) ==
    IF IsNaN(x) \/ IsNaN(y) THEN Number(0, 0)
    ELSE IF IsInf(x) /\ IsInf(y) THEN Number(0, 0)
    ELSE IF IsInf(x) THEN Number(IF y.num < 0 THEN -x.num ELSE x.num, 0)
    ELSE IF IsInf(y) THEN Number(0, 1)
    ELSE Number(x.num * y.den, x.den * y.num)

\* lnum < rnum
NumLt(x, y) ==
    IF IsNaN(x) \/ IsNaN(y) THEN FALSE
    ELSE IF IsInf(x) \/ IsInf(y)
    THEN x # y /\ ((IsInf(x) /\ x.num < 0) \/ (IsInf(y) /\ y.num > 0))
    ELSE x.num * y.den < y.num * x.den

\* lnum == rnum
NumEq(x, y) == ~IsNaN(x) /\ ~IsNaN(y) /\ x = y

----------------------------------------------------------------------------
(* Value::print (ast.rs) *)

DigitChar(d) ==
    CASE d = 0 -> "0" [] d = 1 -> "1" [] d = 2 -> "2" [] d = 3 -> "3"
      [] d = 4 -> "4" [] d = 5 -> "5" [] d = 6 -> "6" [] d = 7 -> "7"
      [] d = 8 -> "8" [] d = 9 -> "9"

\* the decimal digits of a natural number
RECURSIVE NatToString(_)
NatToString(n) ==
    IF n < 10 THEN <<DigitChar(n)>>
    ELSE Append(NatToString(n \div 10), DigitChar(n % 10))

\* the digits after the decimal point of rem/den, at most k of them
RECURSIVE FracToString(_, _, _)
FracToString(rem, den, k) ==
    IF rem = 0 \/ k = 0 THEN <<>>
    ELSE <<DigitChar((10 * rem) \div den)>>
         \o FracToString((10 * rem) % den, den, k - 1)

\* f64::to_string; a fraction that does not terminate is cut after 16 digits
F64ToString(x) ==
    IF IsNaN(x) THEN <<"N", "a", "N">>
    ELSE IF IsInf(x)
    THEN IF x.num > 0 THEN <<"i", "n", "f">> ELSE <<"-", "i", "n", "f">>
    ELSE (IF x.num < 0 THEN <<"-">> ELSE <<>>)
         \o NatToString(Abs(x.num) \div x.den)
         \o (IF Abs(x.num) % x.den = 0 THEN <<>>
             ELSE <<".">> \o FracToString(Abs(x.num) % x.den, x.den, 16))

\* impl AstPrinter for Value
Value_print(v) ==
    CASE v.kind = "Number" -> F64ToString(v)
      [] v.kind = "String" -> v.str
      [] v.kind = "Boolean" ->
            IF v.bool THEN <<"t", "r", "u", "e">> ELSE <<"f", "a", "l", "s", "e">>
      [] v.kind = "Nil" -> <<"n", "i", "l">>

----------------------------------------------------------------------------
(* Environment *)

\* Environment::new
Environment_new == <<>>

\* HashMap::insert
Insert(vals, key, value) ==
    [k \in (DOMAIN vals) \cup {key} |-> IF k = key THEN value ELSE vals[k]]

\* a runtime error message; `name` is the identifier formatted into it
Message(text, name) == [text |-> text, name |-> name]

\* results of Environment and Interpreter methods: Ok(value) or Err(msg), with
\* the environment afterwards; panic: an unwrap hit an Err
EOk(value, vals) ==
    [ok |-> TRUE, panic |-> FALSE, value |-> value, err |-> Message("", <<>>),
     values |-> vals]

EErr(msg, vals) ==
    [ok |-> FALSE, panic |-> FALSE, value |-> Nil, err |-> msg, values |-> vals]

EPanic(vals) ==
    [ok |-> FALSE, panic |-> TRUE, value |-> Nil, err |-> Message("", <<>>),
     values |-> vals]

\* Environment::define keeping the binding a name already has
Environment_define_keep_existing(vals, name, value) ==
    IF name \in DOMAIN vals THEN vals ELSE Insert(vals, name, value)

\* Environment::define: the map afterwards
Environment_define(vals, name, value) == Insert(vals, name, value)

\* Environment::get
Environment_get(vals, name) ==
    IF name.lexeme \in DOMAIN vals
    THEN EOk(vals[name.lexeme], vals)
    ELSE EErr(Message("Undefined variable '{}'.", name.lexeme), vals)

\* Environment::assign without the contains_key test
Environment_assign_unchecked(vals, name, value) ==
    EOk(value, Insert(vals, name.lexeme, value))

\* Environment::assign
Environment_assign(vals, name, value) ==
    IF name.lexeme \in DOMAIN vals
    THEN EOk(value, Insert(vals, name.lexeme, value))
    ELSE EErr(Message("Undefined variable {}.", name.lexeme), vals)

----------------------------------------------------------------------------
(* Interpreter *)

\* is_equal with the catch-all arm answering true
is_equal_mismatch_true(left, right) ==
    IF left.kind = "String" /\ right.kind = "String" THEN left.str = right.str
    ELSE IF left.kind = "Number" /\ right.kind = "Number" THEN NumEq(left, right)
    ELSE IF left.kind = "Boolean" /\ right.kind = "Boolean"
    THEN left.bool = right.bool
    ELSE TRUE

\* Interpreter::is_equal
is_equal(left, right) ==
    IF left.kind = "String" /\ right.kind = "String" THEN left.str = right.str
    ELSE IF left.kind = "Number" /\ right.kind = "Number" THEN NumEq(left, right)
    ELSE IF left.kind = "Boolean" /\ right.kind = "Boolean"
    THEN left.bool = right.bool
    ELSE IF left.kind = "Nil" /\ right.kind = "Nil" THEN TRUE
    ELSE FALSE

\* Interpreter::is_truthy
is_truthy(val) ==
    IF val.kind = "Nil" THEN FALSE
    ELSE IF val.kind = "Boolean" THEN val.bool
    ELSE TRUE

\* the arms of Expr::Unary in Interpreter::evaluate, applied to the operand
evaluate_unary(operator, right, vals) ==
    CASE operator.token_type = "Bang" -> EOk(Boolean(~is_truthy(right)), vals)
      [] operator.token_type = "Minus" ->
            IF right.kind = "Number" THEN EOk(NumNeg(right), vals)
            ELSE EErr(Message("Not a valid operand", <<>>), vals)
      [] OTHER -> EErr(Message("Unknown unary operator.", <<>>), vals)

\* the arms of Expr::Binary in Interpreter::evaluate, applied to the operands
evaluate_binary(left, operator, right, vals) ==
    LET t == operator.token_type
        nums == left.kind = "Number" /\ right.kind = "Number"
        MustBeNumbers == EErr(Message("Operands must be numbers.", <<>>), vals)
    IN
    CASE t = "Greater" ->
            IF nums THEN EOk(Boolean(NumLt(right, left)), vals) ELSE MustBeNumbers
      [] t = "GreaterEqual" ->
            IF nums THEN EOk(Boolean(NumLt(right, left) \/ NumEq(left, right)), vals)
            ELSE MustBeNumbers
      [] t = "Less" ->
            IF nums THEN EOk(Boolean(NumLt(left, right)), vals) ELSE MustBeNumbers
      [] t = "LessEqual" ->
            IF nums THEN EOk(Boolean(NumLt(left, right) \/ NumEq(left, right)), vals)
            ELSE MustBeNumbers
      [] t = "Minus" -> IF nums THEN EOk(NumSub(left, right), vals) ELSE MustBeNumbers
      [] t = "Slash" -> IF nums THEN EOk(NumDiv(left, right), vals) ELSE MustBeNumbers
      [] t = "Star" -> IF nums THEN EOk(NumMul(left, right), vals) ELSE MustBeNumbers
      [] t = "Plus" ->
            IF left.kind = "String" /\ right.kind = "String"
            THEN EOk(String(left.str \o right.str), vals)
            ELSE IF nums THEN EOk(NumAdd(left, right), vals)
            ELSE EErr(Message("Invalid operator for operands", <<>>), vals)
      [] t = "BangEqual" -> EOk(Boolean(~is_equal(left, right)), vals)
      [] t = "EqualEqual" -> EOk(Boolean(is_equal(left, right)), vals)
      [] OTHER -> EErr(Message("Unkown binary operator", <<>>), vals)

\* Interpreter::evaluate
RECURSIVE evaluate(_, _)
evaluate(expr, vals) ==
    CASE expr.type = "Assign" ->
            LET val == evaluate(expr.value, vals) IN
            IF ~val.ok THEN EPanic(val.values)
            ELSE Environment_assign(val.values, expr.name, val.value)
      [] expr.type = "Variable" -> Environment_get(vals, expr.name)
      [] expr.type = "Literal" -> EOk(expr.value, vals)
      [] expr.type = "Grouping" -> evaluate(expr.expression, vals)
      [] expr.type = "Unary" ->
            LET right == evaluate(expr.right, vals) IN
            IF ~right.ok THEN right
            ELSE evaluate_unary(expr.operator, right.value, right.values)
      [] expr.type = "Binary" ->
            LET left == evaluate(expr.left, vals) IN
            IF ~left.ok THEN left
            ELSE LET right == evaluate(expr.right, left.values) IN
                 IF ~right.ok THEN right
                 ELSE evaluate_binary(left.value, expr.operator, right.value,
                                      right.values)
      [] OTHER -> EErr(Message("Not an expression", <<>>), vals)

\* what Lox::runtime_error prints
RuntimeErrorLine(msg) == [kind |-> "runtime_error", message |-> msg]

\* what println!("{}", val.print()) prints
PrintLine(text) == [kind |-> "print", text |-> text]

\* Interpreter::interpret: [panic, values, out]
interpret(stmt, vals) ==
    CASE stmt.type = "Expression" ->
            LET r == evaluate(stmt.expression, vals) IN
            [panic |-> r.panic, values |-> r.values,
             out |-> IF r.ok \/ r.panic THEN <<>> ELSE <<RuntimeErrorLine(r.err)>>]
      [] stmt.type = "Print" ->
            LET r == evaluate(stmt.expression, vals) IN
            [panic |-> r.panic, values |-> r.values,
             out |-> IF r.panic THEN <<>>
                     ELSE IF r.ok THEN <<PrintLine(Value_print(r.value))>>
                     ELSE <<RuntimeErrorLine(r.err)>>]
      [] stmt.type = "Var" ->
            LET val == IF stmt.initializer # NoneOpt
                       THEN evaluate(stmt.initializer[1], vals)
                       ELSE EOk(Nil, vals)
            IN  IF ~val.ok
                THEN [panic |-> TRUE, values |-> val.values, out |-> <<>>]
                ELSE [panic |-> FALSE,
                      values |-> Environment_define(val.values, stmt.name.lexeme,
                                                    val.value),
                      out |-> <<>>]
      [] OTHER ->
            [panic |-> FALSE, values |-> vals,
             out |-> <<RuntimeErrorLine(Message("Not implemented.", <<>>))>>]

----------------------------------------------------------------------------
(* Lox::run, the scanning part *)

\* Lox::run entered with `src`: Scanner::new, nothing scanned yet
RunEntry(src) ==
    /\ source = src
    /\ chars = 1
    /\ token_start = 0
    /\ line = 1
    /\ tokens = <<>>
    /\ current = 0
    /\ had_error = FALSE
    /\ statements = <<>>
    /\ next_stmt = 0
    /\ values = <<>>
    /\ stdout = <<>>
    /\ pc = "scan"
    /\ fault = "none"
    /\ arg = <<>>
    /\ ret = <<>>

\* one iteration of the `while !self.is_at_end()` loop of Scanner::scan_tokens
scan_tokens_loop ==
    /\ pc = "scan"
    /\ ~Scanner_is_at_end(source, chars)
    /\ LET r == scan_token(source, chars, line) IN
        IF r.panic
        THEN /\ pc' = "panicked"
             /\ fault' = "scanner"
             /\ UNCHANGED <<chars, token_start, line, tokens, stdout>>
        ELSE /\ chars' = r.chars
             /\ token_start' = r.token_start
             /\ line' = r.line
             /\ tokens' = Append(tokens, r.token)
             /\ stdout' = stdout \o r.printed
             /\ UNCHANGED <<pc, fault>>
    /\ UNCHANGED <<source, current, had_error, statements, next_stmt, values, arg, ret>>

\* scan_tokens returns; Lox::run prints the tokens and builds the Parser
scan_tokens_return ==
    /\ pc = "scan"
    /\ Scanner_is_at_end(source, chars)
    /\ stdout' = Append(stdout, [kind |-> "tokens", tokens |-> tokens])
    /\ current' = 0
    /\ had_error' = FALSE
    /\ pc' = "parse"
    /\ UNCHANGED <<source, chars, token_start, line, tokens, statements, next_stmt,
                   values, fault, arg, ret>>

----------------------------------------------------------------------------
(* ScanSpec: Scanner::scan_tokens on every short string over ScanAlphabet *)

ScanAlphabet == {"/", "U+00E9", "\"", "a", "1", " ", "\n", "=", ".", "@"}

ScanSources == UNION {[1..k -> ScanAlphabet] : k \in 0..MaxSourceLen}

ScanInit == \E src \in ScanSources : RunEntry(src)

ScanNext == scan_tokens_loop \/ scan_tokens_return

ScanSpec == ScanInit /\ [][ScanNext]_vars

----------------------------------------------------------------------------
(* Lox::run, parsing and interpreting *)

\* the `match self.declaration()` of Parser::parse, `decl` being its result
parse_match(decl) ==
    IF decl.panic
    THEN /\ pc' = "panicked"
         /\ fault' = "parser"
         /\ current' = decl.cur
         /\ stdout' = stdout \o decl.out
         /\ UNCHANGED <<had_error, statements>>
    ELSE IF decl.ok
    THEN /\ statements' = Append(statements, decl.node)
         /\ current' = decl.cur
         /\ stdout' = stdout \o decl.out
         /\ UNCHANGED <<had_error, pc, fault>>
    ELSE LET sync == synchronize(tokens, decl.cur) IN
         /\ had_error' = TRUE
         /\ current' = sync.cur
         /\ stdout' = stdout \o decl.out
         /\ pc' = IF sync.panic THEN "panicked" ELSE pc
         /\ fault' = IF sync.panic THEN "parser" ELSE fault
         /\ UNCHANGED statements

\* one iteration of the `while !self.is_at_end()` loop of Parser::parse
parse_loop ==
    /\ pc = "parse"
    /\ IF Parser_peek_panics(tokens)
       THEN /\ pc' = "panicked"
            /\ fault' = "parser"
            /\ UNCHANGED <<current, had_error, statements, stdout>>
       ELSE /\ ~Parser_is_at_end(tokens, current)
            /\ parse_match(declaration(tokens, current, <<>>))
    /\ UNCHANGED <<source, chars, token_start, line, tokens, next_stmt, values,
                   arg, ret>>

\* Parser::parse returns Ok(statements)
parse_return ==
    /\ pc = "parse"
    /\ ~Parser_peek_panics(tokens)
    /\ Parser_is_at_end(tokens, current)
    /\ pc' = "parsed"
    /\ UNCHANGED <<source, chars, token_start, line, tokens, current, had_error,
                   statements, next_stmt, values, stdout, fault, arg, ret>>

\* run_check_had_error without the early return on had_error
run_check_ignoring_had_error ==
    /\ pc = "parsed"
    /\ values' = Environment_new
    /\ next_stmt' = 0
    /\ pc' = "interpret"
    /\ UNCHANGED <<source, chars, token_start, line, tokens, current, had_error,
                   statements, stdout, fault, arg, ret>>

\* run_check_had_error with the Interpreter keeping the Environment it finds
run_check_keeping_environment ==
    /\ pc = "parsed"
    /\ IF had_error
       THEN /\ stdout' = Append(stdout, [kind |-> "parser_error"])
            /\ pc' = "done"
            /\ UNCHANGED <<values, next_stmt>>
       ELSE /\ next_stmt' = 0
            /\ pc' = "interpret"
            /\ UNCHANGED <<values, stdout>>
    /\ UNCHANGED <<source, chars, token_start, line, tokens, current, had_error,
                   statements, fault, arg, ret>>

\* Lox::run after parse: `if parser.had_error { println!(..); return; }`, else
\* the Interpreter is built with a new Environment
run_check_had_error ==
    /\ pc = "parsed"
    /\ IF had_error
       THEN /\ stdout' = Append(stdout, [kind |-> "parser_error"])
            /\ pc' = "done"
            /\ UNCHANGED <<values, next_stmt>>
       ELSE /\ values' = Environment_new
            /\ next_stmt' = 0
            /\ pc' = "interpret"
            /\ UNCHANGED stdout
    /\ UNCHANGED <<source, chars, token_start, line, tokens, current, had_error,
                   statements, fault, arg, ret>>

\* one iteration of `for stmt in stmt { interpreter.interpret(stmt); }`
interpret_loop ==
    /\ pc = "interpret"
    /\ next_stmt < Len(statements)
    /\ LET r == interpret(statements[next_stmt + 1], values) IN
        /\ values' = r.values
        /\ stdout' = stdout \o r.out
        /\ pc' = IF r.panic THEN "panicked" ELSE pc
        /\ fault' = IF r.panic THEN "interpreter" ELSE fault
        /\ next_stmt' = IF r.panic THEN next_stmt ELSE next_stmt + 1
    /\ UNCHANGED <<source, chars, token_start, line, tokens, current, had_error,
                   statements, arg, ret>>

\* the `for` is exhausted and Lox::run returns
run_return ==
    /\ pc = "interpret"
    /\ next_stmt = Len(statements)
    /\ pc' = "done"
    /\ UNCHANGED <<source, chars, token_start, line, tokens, current, had_error,
                   statements, next_stmt, values, stdout, fault, arg, ret>>

----------------------------------------------------------------------------
(* Spec: Lox::run on programs of at most MaxStmts statements *)

\* "print", "var" and a space
Kw_print == <<"p", "r", "i", "n", "t">>

Kw_var == <<"v", "a", "r">>

Sp == <<" ">>

\* the statements programs are made of
S_VarX1 == Kw_var \o Sp \o <<"x", "=", "1", ";">>

S_VarXY == Kw_var \o Sp \o <<"x", "=", "y", ";">>

S_AssignX2 == <<"x", "=", "2", ";">>

S_PrintX == Kw_print \o Sp \o <<"x", ";">>

S_PrintStr == Kw_print \o <<"\"", "s", "\"", ";">>

S_PrintConcat == Kw_print \o <<"\"", "s", "\"", "+", "\"", "t", "\"", ";">>

S_PrintPlusNothing == Kw_print \o Sp \o <<"1", "+", ";">>

S_PrintNothing == Kw_print \o Sp \o <<";">>

S_ExprY == <<"y", ";">>

Stmts ==
    {S_VarX1, S_VarXY, S_AssignX2, S_PrintX, S_PrintStr, S_PrintConcat,
     S_PrintPlusNothing, S_PrintNothing, S_ExprY}

\* the text of a sequence of statements
RECURSIVE Concat(_)
Concat(ss) == IF ss = <<>> THEN <<>> ELSE Head(ss) \o Concat(Tail(ss))

Programs == UNION {[1..k -> Stmts] : k \in 0..MaxStmts}

Newline == <<"\n">>

\* the programs followed by a newline, and the programs of at most one
\* statement that end with their last token
Sources ==
    {Concat(p) \o Newline : p \in Programs}
        \cup {Concat(p) : p \in {q \in Programs : Len(q) <= 1}}

Init == \E src \in Sources : RunEntry(src)

Next ==
    \/ scan_tokens_loop
    \/ scan_tokens_return
    \/ parse_loop
    \/ parse_return
    \/ run_check_had_error
    \/ interpret_loop
    \/ run_return

Spec == Init /\ [][Next]_vars

----------------------------------------------------------------------------
(* EvalSpec: Interpreter::evaluate on one binary expression of two literals *)

EvalValues ==
    {Number(0, 1), Number(1, 1), Number(0, 0), String(<<>>), String(<<"a">>),
     Boolean(TRUE), Boolean(FALSE), Nil}

\* the operator tokens the Parser puts into Expr::Binary
BinaryOperators ==
    {Token("EqualEqual", <<"=", "=">>, 1), Token("BangEqual", <<"!", "=">>, 1),
     Token("Greater", <<">">>, 1), Token("GreaterEqual", <<">", "=">>, 1),
     Token("Less", <<"<">>, 1), Token("LessEqual", <<"<", "=">>, 1),
     Token("Minus", <<"-">>, 1), Token("Plus", <<"+">>, 1),
     Token("Slash", <<"/">>, 1), Token("Star", <<"*">>, 1)}

EvalExprs ==
    {Binary(Literal(a), op, Literal(b)) :
        a \in EvalValues, b \in EvalValues, op \in BinaryOperators}

EvalInit ==
    \E e \in EvalExprs :
        /\ source = <<>>
        /\ chars = 1
        /\ token_start = 0
        /\ line = 1
        /\ tokens = <<>>
        /\ current = 0
        /\ had_error = FALSE
        /\ statements = <<>>
        /\ next_stmt = 0
        /\ values = Environment_new
        /\ stdout = <<>>
        /\ pc = "evaluate"
        /\ fault = "none"
        /\ arg = e
        /\ ret = <<>>

\* self.evaluate(arg)
evaluate_call ==
    /\ pc = "evaluate"
    /\ LET r == evaluate(arg, values) IN
        /\ ret' = [ok |-> r.ok, panic |-> r.panic, value |-> r.value, err |-> r.err]
        /\ values' = r.values
    /\ pc' = "evaluated"
    /\ UNCHANGED <<source, chars, token_start, line, tokens, current, had_error,
                   statements, next_stmt, stdout, fault, arg>>

EvalNext == evaluate_call

EvalSpec == EvalInit /\ [][EvalNext]_vars

----------------------------------------------------------------------------
(* EnvSpec: any sequence of Environment::define / get / assign calls *)

EnvNames == {<<"x">>, <<"y">>}

EnvValues == {Number(1, 1), String(<<"a">>), Boolean(TRUE), Nil}

EnvInit ==
    /\ source = <<>>
    /\ chars = 1
    /\ token_start = 0
    /\ line = 1
    /\ tokens = <<>>
    /\ current = 0
    /\ had_error = FALSE
    /\ statements = <<>>
    /\ next_stmt = 0
    /\ values = Environment_new
    /\ stdout = <<>>
    /\ pc = "environment"
    /\ fault = "none"
    /\ arg = [op |-> "new", name |-> <<>>, value |-> Nil]
    /\ ret = EOk(Nil, Environment_new)

\* the call `op(name, value)` has returned r
EnvReturn(op, name, value, r) ==
    /\ arg' = [op |-> op, name |-> name, value |-> value]
    /\ ret' = r
    /\ values' = r.values
    /\ UNCHANGED <<source, chars, token_start, line, tokens, current, had_error,
                   statements, next_stmt, stdout, pc, fault>>

\* environment.define(name, value)
env_define ==
    /\ pc = "environment"
    /\ \E n \in EnvNames, v \in EnvValues :
        EnvReturn("define", n, v, EOk(Nil, Environment_define(values, n, v)))

\* environment.get(&name)
env_get ==
    /\ pc = "environment"
    /\ \E n \in EnvNames :
        EnvReturn("get", n, Nil, Environment_get(values, Token("Identifier", n, 1)))

\* environment.assign(name, value)
env_assign ==
    /\ pc = "environment"
    /\ \E n \in EnvNames, v \in EnvValues :
        EnvReturn("assign", n, v,
                  Environment_assign(values, Token("Identifier", n, 1), v))

EnvNext == env_define \/ env_get \/ env_assign

EnvSpec == EnvInit /\ [][EnvNext]_vars

----------------------------------------------------------------------------
(* PrecSpec: Lox::run on `print <expr>;` with three operands, two binary
   operators and at most one pair of parentheses or a leading minus *)

PrecOperands == {<<"1">>, <<"2">>, <<"4">>}

PrecOperators == {<<"+">>, <<"-">>, <<"*">>, <<"/">>, <<"<">>, <<"=", "=">>}

\* the source text of one such statement, ended by a newline
PrecSource(shape, a, o1, b, o2, c) ==
    Kw_print \o Sp \o
        (CASE shape = "flat" -> a \o o1 \o b \o o2 \o c
           [] shape = "left" -> <<"(">> \o a \o o1 \o b \o <<")">> \o o2 \o c
           [] shape = "right" -> a \o o1 \o <<"(">> \o b \o o2 \o c \o <<")">>
           [] shape = "minus" -> <<"-">> \o a \o o1 \o b \o o2 \o c)
        \o <<";">> \o Newline

PrecSources ==
    {PrecSource(sh, a, o1, b, o2, c) :
        sh \in {"flat", "left", "right", "minus"}, a \in PrecOperands, b \in PrecOperands,
        c \in PrecOperands, o1 \in PrecOperators, o2 \in PrecOperators}
        \cup {Kw_print \o Sp \o <<"1", "0", "-", "2", "-", "3", ";">> \o Newline,
              Kw_print \o Sp \o <<"(", "2", "+", "3", ")", "*", "4", ";">> \o Newline}

PrecInit == \E src \in PrecSources : RunEntry(src)

PrecSpec == PrecInit /\ [][Next]_vars

----------------------------------------------------------------------------
(* PromptSpec: Lox::run_prompt, one Lox::run for each string read from stdin *)

\* what print!("> ") writes
PromptLine == [kind |-> "prompt"]

\* the strings input.scan() yields
PromptLines ==
    {S_VarX1 \o Newline,
     S_PrintX \o Newline,
     S_VarX1 \o S_PrintX \o Newline,
     Kw_var \o Sp \o <<"y", ";">> \o S_PrintX \o Newline,
     S_PrintNothing \o Newline}

\* run_prompt has written its first prompt and hands the first string to Lox::run
PromptInit ==
    \E cmd \in PromptLines :
        /\ source = cmd
        /\ chars = 1
        /\ token_start = 0
        /\ line = 1
        /\ tokens = <<>>
        /\ current = 0
        /\ had_error = FALSE
        /\ statements = <<>>
        /\ next_stmt = 0
        /\ values = Environment_new
        /\ stdout = <<PromptLine>>
        /\ pc = "scan"
        /\ fault = "none"
        /\ arg = <<>>
        /\ ret = <<>>

\* Lox::run has returned: the next iteration of the `loop` of run_prompt, which
\* writes the prompt and runs the string read, or breaks when the input has
\* ended. The Interpreter of the run that returned is dropped; `values` holds
\* what it held until the next run builds its Interpreter.
run_prompt_loop ==
    /\ pc = "done"
    /\ \/ /\ Cardinality({i \in DOMAIN stdout : stdout[i] = PromptLine}) < MaxRuns
          /\ \E cmd \in PromptLines : source' = cmd
          /\ chars' = 1
          /\ token_start' = 0
          /\ line' = 1
          /\ tokens' = <<>>
          /\ current' = 0
          /\ had_error' = FALSE
          /\ statements' = <<>>
          /\ next_stmt' = 0
          /\ stdout' = Append(stdout, PromptLine)
          /\ pc' = "scan"
          /\ UNCHANGED <<values, fault, arg, ret>>
       \/ /\ stdout' = Append(stdout, PromptLine)
          /\ pc' = "exited"
          /\ UNCHANGED <<source, chars, token_start, line, tokens, current,
                         had_error, statements, next_stmt, values, fault, arg, ret>>

PromptNext == Next \/ run_prompt_loop

PromptSpec == PromptInit /\ [][PromptNext]_vars

----------------------------------------------------------------------------
(* ParseSpec: Parser::parse on token sequences that end with the EoF token *)

\* the tokens before the EoF token
ParseTokens ==
    {Token("Var", Kw_var, 1), Token("Print", Kw_print, 1),
     Token("If", <<"i", "f">>, 1), Token("Identifier", <<"x">>, 1),
     Token("NumberLiteral", <<"1">>, 1), Token("Equal", <<"=">>, 1),
     Token("Plus", <<"+">>, 1), Token("LeftParen", <<"(">>, 1),
     Token("Semicolon", <<";">>, 1)}

\* Parser::new on such a sequence
ParseInit ==
    \E k \in 0..MaxTokens :
        \E toks \in [1..k -> ParseTokens] :
            /\ source = <<>>
            /\ chars = 1
            /\ token_start = 0
            /\ line = 1
            /\ tokens = Append(toks, Token("EoF", <<>>, 1))
            /\ current = 0
            /\ had_error = FALSE
            /\ statements = <<>>
            /\ next_stmt = 0
            /\ values = Environment_new
            /\ stdout = <<>>
            /\ pc = "parse"
            /\ fault = "none"
            /\ arg = <<>>
            /\ ret = <<>>

ParseNext == parse_loop \/ parse_return

ParseSpec == ParseInit /\ [][ParseNext]_vars

----------------------------------------------------------------------------
(* InterpSpec: the statement loop of Lox::run on given statement trees *)

\* Stmt variants the Interpreter has no arm for; their fields are never read
ReservedStmt(type) == [type |-> type]

\* Expr variants the Interpreter has no arm for; their fields are never read
ReservedExpr(type) == [type |-> type]

\* declarations, assignments and reads of x and y
InterpStmts ==
    LET x == Token("Identifier", <<"x">>, 1)
        y == Token("Identifier", <<"y">>, 2)
    IN  {VarStmt(x, Some(Literal(Number(1, 1)))),
         VarStmt(x, Some(Literal(Number(2, 1)))),
         VarStmt(x, NoneOpt),
         VarStmt(y, Some(Literal(String(<<"a">>)))),
         ExpressionStmt(Assign(x, Literal(Number(3, 1)))),
         ExpressionStmt(Assign(y, Literal(Boolean(TRUE)))),
         PrintStmt(Variable(x)),
         PrintStmt(Variable(y))}

\* the sequences of at most MaxStmts of these statements, and every statement
\* that holds a reserved variant, alone or after a declaration of x
InterpPrograms ==
    LET y == Token("Identifier", <<"y">>, 2)
        minus == Token("Minus", <<"-">>, 1)
        stmts == {ReservedStmt(t) :
                    t \in {"Block", "Class", "Function", "If", "Return", "While"}}
        exprs == {ReservedExpr(t) :
                    t \in {"Call", "Get", "Logical", "Set", "Super", "This"}}
        holding == stmts
                    \cup {ExpressionStmt(e) : e \in exprs}
                    \cup {PrintStmt(e) : e \in exprs}
                    \cup {PrintStmt(Grouping(e)) : e \in exprs}
                    \cup {PrintStmt(Unary(minus, e)) : e \in exprs}
                    \cup {VarStmt(y, Some(e)) : e \in exprs}
        decl == VarStmt(Token("Identifier", <<"x">>, 1), Some(Literal(Number(1, 1))))
    IN  UNION {[1..k -> InterpStmts] : k \in 0..MaxStmts}
            \cup {<<s>> : s \in holding}
            \cup {<<decl, s>> : s \in holding}

\* Lox::run with `statements` parsed without error: the Interpreter is built
InterpInit ==
    \E stmts \in InterpPrograms :
        /\ source = <<>>
        /\ chars = 1
        /\ token_start = 0
        /\ line = 1
        /\ tokens = <<>>
        /\ current = 0
        /\ had_error = FALSE
        /\ statements = stmts
        /\ next_stmt = 0
        /\ values = Environment_new
        /\ stdout = <<>>
        /\ pc = "interpret"
        /\ fault = "none"
        /\ arg = <<>>
        /\ ret = <<>>

InterpNext == interpret_loop \/ run_return

InterpSpec == InterpInit /\ [][InterpNext]_vars

----------------------------------------------------------------------------
(* Claims *)

\* the lines that Print statements have written
IsPrintLine(l) == l.kind = "print"

Printed == SelectSeq(stdout, IsPrintLine)

\* the lines the Interpreter has written: printed values and runtime errors
IsInterpreterLine(l) == l.kind \in {"print", "runtime_error"}

\* scan_tokens has returned (Lox::run goes on to parse)
Scanned == pc = "parse" /\ current = 0 /\ statements = <<>> /\ ~had_error

\* C1: the token sequence scan_tokens returns, for every source, ends with an
\* EoF token and holds no other EoF token.
C1_EndsWithOneEoF ==
    Scanned =>
        /\ tokens # <<>>
        /\ tokens[Len(tokens)].token_type = "EoF"
        /\ \A i \in 1..(Len(tokens) - 1) : tokens[i].token_type # "EoF"

\* C2: scan_tokens panics on no source, sources with multi-byte characters
\* (also directly after a '/') included.
C2_ScannerNeverPanics == fault # "scanner"

\* C3: once had_error is set, no statement is interpreted: the Interpreter
\* writes nothing, the Environment stays empty and the statement loop of
\* Lox::run is never entered.
C3_NoExecutionAfterParseError ==
    had_error =>
        /\ pc # "interpret"
        /\ next_stmt = 0
        /\ values = Environment_new
        /\ SelectSeq(stdout, IsInterpreterLine) = <<>>

\* a run aborted on had_error although two statements had parsed
C3_Witness == pc = "done" /\ had_error /\ Len(statements) >= 2

\* C4: a runtime error in any statement kind of a program that parsed is
\* reported, never a panic, and every statement of the program is interpreted.
C4_RuntimeErrorsReported ==
    /\ fault # "interpreter"
    /\ (pc = "done" /\ ~had_error) => next_stmt = Len(statements)

\* C5: `var x=1;x=2;print x;` parses without error, leaves x bound to 2 and
\* prints 2.
C5_AssignmentRuns ==
    (source = S_VarX1 \o S_AssignX2 \o S_PrintX \o Newline
        /\ pc \in {"done", "panicked"}) =>
        /\ ~had_error
        /\ fault = "none"
        /\ values = Insert(Environment_new, <<"x">>, Number(2, 1))
        /\ Printed = <<PrintLine(<<"2">>)>>

\* C6: a printed string holds no quote character: `print "s";` prints s and
\* `print "s"+"t";` prints st.
C6_StringsPrintUnquoted ==
    /\ \A i \in 1..Len(Printed) :
        \A j \in 1..Len(Printed[i].text) : Printed[i].text[j] # "\""
    /\ (source = S_PrintStr \o Newline /\ pc = "done") =>
            Printed = <<PrintLine(<<"s">>)>>
    /\ (source = S_PrintConcat \o Newline /\ pc = "done") =>
            Printed = <<PrintLine(<<"s", "t">>)>>

\* the statements the Parser's grammar accepts, and the malformed ones
WellFormedStmts == {S_VarX1, S_VarXY, S_PrintX, S_PrintStr, S_PrintConcat, S_ExprY}

MalformedStmts == {S_PrintPlusNothing, S_PrintNothing}

\* the programs with exactly one malformed statement, the others well-formed
OneMalformedPrograms ==
    {p \in Programs :
        /\ \A i \in 1..Len(p) : p[i] \in WellFormedStmts \cup MalformedStmts
        /\ Cardinality({i \in 1..Len(p) : p[i] \in MalformedStmts}) = 1}

\* C7: when exactly one statement of an EoF-terminated program is malformed,
\* parse returns every other statement.
C7_RecoveryKeepsOtherStatements ==
    (pc = "parsed" /\ had_error) =>
        \A p \in OneMalformedPrograms :
            source = Concat(p) \o Newline => Len(statements) = Len(p) - 1

\* C8: on the tokens the Scanner produced the Parser never panics, and with the
\* cursor at or beyond the last token peek yields the EoF token.
C8_ParserNeverFaults ==
    /\ fault # "parser"
    /\ (pc \in {"parse", "parsed"} /\ tokens # <<>> /\ current >= Len(tokens) - 1)
            => Parser_peek(tokens, current).token_type = "EoF"

\* the `==` operator token
EqualEqualToken == Token("EqualEqual", <<"=", "=">>, 1)

\* C9: evaluating a == b or a != b on two Values never fails; operands of
\* different kinds are not equal, nil equals nil, and a != b is the negation of
\* a == b.
C9_EqualityIsTotal ==
    (pc = "evaluated" /\ arg.operator.token_type \in {"EqualEqual", "BangEqual"}) =>
        LET a == arg.left.value
            b == arg.right.value
            eq == arg.operator.token_type = "EqualEqual"
        IN  /\ ret.ok
            /\ ~ret.panic
            /\ ret.value.kind = "Boolean"
            /\ a.kind # b.kind => ret.value = Boolean(~eq)
            /\ (a = Nil /\ b = Nil) => ret.value = Boolean(eq)
            /\ ~eq => ret.value.bool =
                        ~evaluate(Binary(Literal(a), EqualEqualToken, Literal(b)),
                                  values).value.bool
            /\ values = Environment_new

\* a == b evaluated on operands of different kinds
C9_Witness ==
    /\ pc = "evaluated"
    /\ arg.operator.token_type = "EqualEqual"
    /\ arg.left.value.kind = "Number"
    /\ arg.right.value.kind = "Nil"
    /\ ret.value = Boolean(FALSE)

\* C10: assign to an unbound name fails with Undefined variable and changes
\* nothing; assign to a bound name replaces that binding only and returns the
\* value.
C10_AssignRequiresBinding ==
    [][arg'.op = "assign" =>
        IF arg'.name \in DOMAIN values
        THEN /\ ret'.ok
             /\ ret'.value = arg'.value
             /\ DOMAIN values' = DOMAIN values
             /\ values'[arg'.name] = arg'.value
             /\ \A n \in DOMAIN values \ {arg'.name} : values'[n] = values[n]
        ELSE /\ ~ret'.ok
             /\ ret'.err = Message("Undefined variable {}.", arg'.name)
             /\ values' = values]_vars

\* assign has replaced one of two bindings
C10_Witness ==
    /\ arg.op = "assign"
    /\ ret.ok
    /\ DOMAIN values = EnvNames
    /\ values[<<"x">>] # values[<<"y">>]

\* the statements that bind `name` when they succeed: a Var statement always,
\* an assignment when `name` is bound in `vals`
Binds(stmt, name, vals) ==
    \/ stmt.type = "Var" /\ stmt.name.lexeme = name
    \/ /\ stmt.type = "Expression"
       /\ stmt.expression.type = "Assign"
       /\ stmt.expression.name.lexeme = name
       /\ name \in DOMAIN vals

\* the value such a statement binds: its literal, Nil without an initializer
BoundValue(stmt) ==
    IF stmt.type = "Expression" THEN stmt.expression.value.value
    ELSE IF stmt.initializer = NoneOpt THEN Nil
    ELSE stmt.initializer[1].value

\* the bindings after the statements stmts[1..k], from the statements alone:
\* each name is bound to what the most recent binding statement gave it
RECURSIVE LatestBindings(_, _)
LatestBindings(stmts, k) ==
    IF k = 0 THEN <<>>
    ELSE LET before == LatestBindings(stmts, k - 1)
             names == {n \in {<<"x">>, <<"y">>} : Binds(stmts[k], n, before)}
         IN  [n \in (DOMAIN before) \cup names |->
                IF n \in names THEN BoundValue(stmts[k]) ELSE before[n]]

\* what the statements stmts[1..k] print when each read yields the most recent
\* binding and only reads of unbound names and assignments to them fail
RECURSIVE LatestOutput(_, _)
LatestOutput(stmts, k) ==
    IF k = 0 THEN <<>>
    ELSE LET before == LatestBindings(stmts, k - 1)
             s == stmts[k]
         IN  LatestOutput(stmts, k - 1) \o
                (IF s.type = "Print"
                 THEN IF s.expression.name.lexeme \in DOMAIN before
                      THEN <<PrintLine(Value_print(before[s.expression.name.lexeme]))>>
                      ELSE <<RuntimeErrorLine(Message("Undefined variable '{}'.",
                                                     s.expression.name.lexeme))>>
                 ELSE IF s.type = "Expression" /\ ~Binds(s, s.expression.name.lexeme, before)
                 THEN <<RuntimeErrorLine(Message("Undefined variable {}.",
                                                s.expression.name.lexeme))>>
                 ELSE <<>>)

\* the programs of declarations, assignments and reads
DeclPrograms == UNION {[1..k -> InterpStmts] : k \in 0..MaxStmts}

\* C11: after any sequence of declarations and assignments each name is bound
\* to the value of its most recent successful define or assign and a read
\* prints that value; a declaration never fails, redeclaring included, and
\* changes no other binding; a Var statement without initializer binds Nil.
C11_LatestBindingWins ==
    statements \in DeclPrograms =>
        /\ fault = "none"
        /\ values = LatestBindings(statements, next_stmt)
        /\ stdout = LatestOutput(statements, next_stmt)

\* `var x = 1; var x = 2; print x;` has printed 2, and in another run
\* `var x;` has bound x to Nil beside an earlier binding of y
C11_Witness ==
    /\ pc = "done"
    /\ statements \in DeclPrograms
    /\ Len(statements) = 3
    /\ statements[1].type = "Var" /\ statements[2].type = "Var"
    /\ statements[1].name.lexeme = <<"x">> /\ statements[2].name.lexeme = <<"x">>
    /\ statements[1].initializer = Some(Literal(Number(1, 1)))
    /\ statements[2].initializer = Some(Literal(Number(2, 1)))
    /\ statements[3] = PrintStmt(Variable(statements[1].name))
    /\ stdout = <<PrintLine(<<"2">>)>>
    /\ values[<<"x">>] = Number(2, 1)

\* what a runtime error message has formatted into it
MessageArguments(msg) == {msg.name}

\* C12: a read of an unbound name is reported as Undefined variable, the
\* message naming the identifier and the line of its token; no value is
\* printed and the Environment is left as it was.
C12_GetUnboundNamesLine ==
    (/\ statements \in DeclPrograms
     /\ next_stmt > 0
     /\ statements[next_stmt].type = "Print"
     /\ statements[next_stmt].expression.name.lexeme \notin DOMAIN values) =>
        LET name == statements[next_stmt].expression.name
            last == stdout[Len(stdout)]
        IN  /\ stdout # <<>>
            /\ last.kind = "runtime_error"
            /\ last.message.text = "Undefined variable '{}'."
            /\ name.lexeme \in MessageArguments(last.message)
            /\ NatToString(name.line) \in MessageArguments(last.message)
            /\ values = LatestBindings(statements, next_stmt - 1)

\* the level of a binary operator on the precedence ladder, higher binds tighter
Precedence(o) ==
    CASE o \in {<<"*">>, <<"/">>} -> 3
      [] o \in {<<"+">>, <<"-">>} -> 2
      [] o = <<"<">> -> 1
      [] o = <<"=", "=">> -> 0

\* the token the Scanner makes of an operator on line 1
OperatorToken(o) ==
    Token(CASE o = <<"*">> -> "Star"
            [] o = <<"/">> -> "Slash"
            [] o = <<"+">> -> "Plus"
            [] o = <<"-">> -> "Minus"
            [] o = <<"<">> -> "Less"
            [] o = <<"=", "=">> -> "EqualEqual",
          o, 1)

\* the tree of a one-digit operand
Operand(a) == Literal(Number(DigitVal(a[1]), 1))

\* the tree the grammar gives `a o1 b o2 c`: grouped as the parentheses say,
\* else the tighter operator first and the left one on a tie
ExpectedTree(shape, a, o1, b, o2, c) ==
    LET first == IF shape = "minus"
                 THEN Unary(Token("Minus", <<"-">>, 1), Operand(a))
                 ELSE Operand(a)
        l == Binary(first, OperatorToken(o1), Operand(b))
        r == Binary(Operand(b), OperatorToken(o2), Operand(c))
    IN  CASE shape = "left" -> Binary(Grouping(l), OperatorToken(o2), Operand(c))
          [] shape = "right" -> Binary(first, OperatorToken(o1), Grouping(r))
          [] OTHER ->
                IF Precedence(o2) > Precedence(o1)
                THEN Binary(first, OperatorToken(o1), r)
                ELSE Binary(l, OperatorToken(o2), Operand(c))

\* C13: `a o1 b o2 c` parses with the tighter operator first and, on the same
\* level, the left one first; a leading minus binds tighter than any binary
\* operator and parentheses group; the statement prints the value of that
\* tree: `print 10-2-3;` prints 5 and `print (2+3)*4;` prints 20.
C13_PrecedenceAndLeftAssociativity ==
    pc \in {"parsed", "done"} =>
        /\ ~had_error
        /\ \A sh \in {"flat", "left", "right", "minus"}, a \in PrecOperands, b \in PrecOperands,
              c \in PrecOperands, o1 \in PrecOperators, o2 \in PrecOperators :
                source = PrecSource(sh, a, o1, b, o2, c) =>
                    LET tree == ExpectedTree(sh, a, o1, b, o2, c) IN
                    /\ statements = <<PrintStmt(tree)>>
                    /\ pc = "done" =>
                        SelectSeq(stdout, IsInterpreterLine)
                            = interpret(PrintStmt(tree), Environment_new).out
        /\ (pc = "done" /\ source = Kw_print \o Sp
                \o <<"1", "0", "-", "2", "-", "3", ";">> \o Newline) =>
                Printed = <<PrintLine(<<"5">>)>>
        /\ (pc = "done" /\ source = Kw_print \o Sp
                \o <<"(", "2", "+", "3", ")", "*", "4", ";">> \o Newline) =>
                Printed = <<PrintLine(<<"2", "0">>)>>

\* `print 4-2-1;` has printed 1, the value of (4-2)-1
C13_Witness ==
    /\ pc = "done"
    /\ source = PrecSource("flat", <<"4">>, <<"-">>, <<"2">>, <<"-">>, <<"1">>)
    /\ statements[1].expression.left.type = "Binary"
    /\ Printed = <<PrintLine(<<"1">>)>>

\* C14: a statement that is, or whose expression holds, a reserved variant is
\* reported as Not implemented, the same report for every such variant; it
\* raises no panic, prints no value and leaves the Environment as it was.
C14_ReservedVariantsNotImplemented ==
    statements \notin DeclPrograms =>
        /\ fault = "none"
        /\ next_stmt = Len(statements) =>
            /\ stdout = <<RuntimeErrorLine(Message("Not implemented.", <<>>))>>
            /\ values = LatestBindings(statements, Len(statements) - 1)

\* what the run in progress has written after its tokens
RunOutput ==
    LET at == {i \in DOMAIN stdout : stdout[i].kind = "tokens"}
        last == CHOOSE i \in at : \A j \in at : j <= i
    IN  SubSeq(stdout, last + 1, Len(stdout))

\* C15: every Lox::run starts with an empty Environment and its statements
\* share one Environment: whatever runs came before, the bindings and the
\* output of a run are those its own statements give from the empty
\* Environment.
C15_EnvironmentPerRun ==
    (pc \in {"interpret", "done"} /\ ~had_error) =>
        /\ values = LatestBindings(statements, next_stmt)
        /\ RunOutput = LatestOutput(statements, next_stmt)

\* `var x=1;` ran first; `print x;`, run next, has reported x as undefined
C15_Witness ==
    /\ pc = "done"
    /\ Len(stdout) > 3
    /\ stdout[2].kind = "tokens"
    /\ stdout[2].tokens[1].token_type = "Var"
    /\ stdout[3] = PromptLine
    /\ source = S_PrintX \o Newline
    /\ RunOutput = <<RuntimeErrorLine(Message("Undefined variable '{}'.", <<"x">>))>>

\* the index of the quote that opens the string still open at the end of
\* `src`, 0 when no string is open there; read from the text alone: a quote
\* opens or closes a string outside comments, `//` opens a comment outside
\* strings and a newline ends it
RECURSIVE OpenQuote(_, _, _, _)
OpenQuote(src, i, mode, opened) ==
    IF i > Len(src) THEN (IF mode = "string" THEN opened ELSE 0)
    ELSE CASE mode = "string" ->
                OpenQuote(src, i + 1, IF src[i] = "\"" THEN "code" ELSE "string", opened)
           [] mode = "comment" ->
                OpenQuote(src, i + 1, IF src[i] = "\n" THEN "code" ELSE "comment", opened)
           [] OTHER ->
                IF src[i] = "\"" THEN OpenQuote(src, i + 1, "string", i)
                ELSE IF src[i] = "/" /\ i < Len(src) /\ src[i + 1] = "/"
                THEN OpenQuote(src, i + 2, "comment", opened)
                ELSE OpenQuote(src, i + 1, "code", opened)

\* C16: for a source that ends inside a string the Scanner does not panic and
\* returns exactly one UnterminatedStringError token, the last token, whose
\* lexeme is the source from the opening quote to its end; every iteration of
\* the scan loop consumes at least one character.
C16_UnterminatedStringToken ==
    /\ [](OpenQuote(source, 1, "code", 0) > 0 =>
            /\ fault # "scanner"
            /\ Scanned =>
                /\ tokens # <<>>
                /\ tokens[Len(tokens)].token_type = "UnterminatedStringError"
                /\ tokens[Len(tokens)].lexeme
                    = SubSeq(source, OpenQuote(source, 1, "code", 0), Len(source))
                /\ \A i \in 1..(Len(tokens) - 1) :
                    tokens[i].token_type # "UnterminatedStringError")
    /\ [][(pc = "scan" /\ pc' = "scan") => chars' > chars]_vars

\* C17: on a token sequence that ends with the EoF token every iteration of
\* the loop of Parser::parse moves the cursor forward, nothing moves it back
\* and it never passes the EoF token, so the loop ends after at most as many
\* iterations as there are tokens; the Parser does not panic, and when parse
\* returns the cursor is on the EoF token.
C17_ParseTerminates ==
    /\ [][current' >= current /\ (pc' = "parse" => current' > current)]_vars
    /\ [](fault = "none")
    /\ [](current <= Len(tokens) - 1)
    /\ [](pc = "parsed" =>
            current = Len(tokens) - 1 /\ tokens[current + 1].token_type = "EoF")

\* parse has returned after a failed declaration: `x + ;` reported an error,
\* synchronize brought the cursor to the EoF token
C17_Witness ==
    /\ pc = "parsed"
    /\ had_error
    /\ Len(tokens) = 4
    /\ tokens[2].token_type = "Plus"
    /\ tokens[3].token_type = "Semicolon"
    /\ current = 3

=============================================================================
